---- MODULE Spec2Model ----
(***************************************************************************)
(* Hydrographic anomaly-analysis engine (apps/api/src/infrastructure/      *)
(* ml_pipeline.py) and the two chart-production services                   *)
(* (domain/services/contour_generation.py, sounding_selection.py).         *)
(*                                                                         *)
(* Numbers.  Depths are integers.  Every real-valued quantity of the       *)
(* program (features, scores, probabilities, priorities, thresholds) is    *)
(* held in fixed point with Scale units per 1.0 and computed in exact      *)
(* integer arithmetic, rounded down where the program divides or takes a   *)
(* square root.  A float that can be NaN is a record [nan, v]; NaN         *)
(* propagates through arithmetic and makes every comparison false, as in   *)
(* IEEE 754.                                                               *)
(***************************************************************************)
EXTENDS Integers, Sequences, FiniteSets, TLC

\* ---------------------------------------------------------------- bounds
NRows == 3
NCols == 3
\* fixed-point resolution: Scale units per 1.0
Scale == 100

\* ------------------------------------------------------- integer helpers
Abs(x) == IF x < 0 THEN -x ELSE x
Min2(a, b) == IF a <= b THEN a ELSE b
Max2(a, b) == IF a >= b THEN a ELSE b
Sgn(x) == IF x < 0 THEN -1 ELSE IF x > 0 THEN 1 ELSE 0

RECURSIVE SqrtIter(_, _)
SqrtIter(n, x) ==
    LET y == (x + n \div x) \div 2
    IN  IF y >= x THEN x ELSE SqrtIter(n, y)

\* floor of the square root of a natural number
ISqrt(n) == IF n <= 0 THEN 0 ELSE SqrtIter(n, n)

RECURSIVE SumSet(_, _)
SumSet(S, f) ==
    IF S = {} THEN 0
    ELSE LET x == CHOOSE y \in S : TRUE
         IN  f[x] + SumSet(S \ {x}, f)

RECURSIVE SumSeq(_)
SumSeq(s) == IF s = <<>> THEN 0 ELSE Head(s) + SumSeq(Tail(s))

RECURSIVE TabOver(_, _)
TabOver(S, f) ==
    IF S = {} THEN <<>>
    ELSE LET x == CHOOSE y \in S : TRUE
         IN  (x :> f[x]) @@ TabOver(S \ {x}, f)

\* the function f with every value computed once (an array in memory)
Tab(f) == TabOver(DOMAIN f, f)

\* insert x into the ascending sequence s
RECURSIVE InsertAsc(_, _)
InsertAsc(x, s) ==
    IF s = <<>> THEN <<x>>
    ELSE IF x <= Head(s) THEN <<x>> \o s
    ELSE <<Head(s)>> \o InsertAsc(x, Tail(s))

RECURSIVE SortedVals(_, _)
\* the values f[x], x in S, in ascending order (with repetitions)
SortedVals(S, f) ==
    IF S = {} THEN <<>>
    ELSE LET x == CHOOSE y \in S : TRUE
         IN  InsertAsc(f[x], SortedVals(S \ {x}, f))

\* twice the median of a non-empty ascending sequence (np.median averages
\* the two middle elements of an even-length sample)
Median2(s) ==
    LET n == Len(s)
    IN  IF n % 2 = 1 THEN 2 * s[(n + 1) \div 2]
        ELSE s[n \div 2] + s[n \div 2 + 1]

\* ---------------------------------------------------------------- floats
NaN == [nan |-> TRUE, v |-> 0]
Fl(x) == [nan |-> FALSE, v |-> x]
IsNaN(a) == a.nan

\* ------------------------------------------------------------------ grid
RowIdx == 0 .. (NRows - 1)
ColIdx == 0 .. (NCols - 1)
Cells == RowIdx \X ColIdx

\* row-major position of a cell (numpy's flat index)
FlatIdx(c) == c[1] * NCols + c[2]

\* first cell of a non-empty set of cells in raster order
FirstCell(comp) == CHOOSE c \in comp : \A d \in comp : FlatIdx(c) <= FlatIdx(d)

ValidCells(data) == {c \in Cells : ~IsNaN(data[c])}

\* the integer values of a float grid over a set of non-NaN cells
Vals(g) == [c \in Cells |-> g[c].v]

\* scipy.ndimage boundary mode 'reflect': (d c b a | a b c d | d c b a)
Reflect(i, n) ==
    IF i < 0 THEN Min2(-i - 1, n - 1)
    ELSE IF i >= n THEN Max2(2 * n - 1 - i, 0)
    ELSE i

ReflectCell(r, c) == <<Reflect(r, NRows), Reflect(c, NCols)>>

\* cells of the w x w window centred on c that lie inside the grid
\* (ndimage.convolve with mode='constant', cval 0: outside contributes 0)
Window(c, w) ==
    LET h == w \div 2
    IN  {d \in Cells : Abs(d[1] - c[1]) <= h /\ Abs(d[2] - c[2]) <= h}


\* truncating division (the sign of the quotient follows the operands)
Div(a, b) == Sgn(a) * Sgn(b) * (Abs(a) \div Abs(b))

\* ------------------------------------------------------- configuration
\* ProcessingConfig._get_defaults; weights and detector thresholds are held
\* in tenths (0.5 -> 5, 3.5 -> 35), score thresholds in Scale units.

DefaultWeights == [isolation_forest |-> 5, zscore |-> 3, spatial_consistency |-> 2]

DefaultConfig ==
    [ if_enabled        |-> TRUE,
      z_enabled         |-> TRUE,
      weights           |-> DefaultWeights,
      use_mad           |-> TRUE,
      mad_threshold     |-> 35,
      threshold         |-> 30,
      anomaly_threshold |-> (6 * Scale) \div 10,
      min_area_pixels   |-> 9,
      conf_high         |-> (8 * Scale) \div 10,
      conf_medium       |-> (5 * Scale) \div 10,
      window_size       |-> 5,
      roughness_window  |-> 3 ]

\* weights.get(detector, 0.1)
WeightOf(weights, detector) ==
    IF detector \in DOMAIN weights THEN weights[detector] ELSE 1

\* ---------------------------------------------------- feature extractor
\* scipy.ndimage.correlate1d with a 3-tap filter w, mode='reflect'.  The C
\* loop multiplies every tap, the zero one included, so a NaN anywhere
\* under the filter makes the output NaN.
Correlate1d(g, w, axis) ==
    Tab([c \in Cells |->
        LET nb(j) == IF axis = 0 THEN g[ReflectCell(c[1] + j, c[2])]
                                 ELSE g[ReflectCell(c[1], c[2] + j)]
        IN  IF \E j \in {-1, 0, 1} : IsNaN(nb(j)) THEN NaN
            ELSE Fl(w[1] * nb(-1).v + w[2] * nb(0).v + w[3] * nb(1).v)])

\* scipy.ndimage.sobel: derivative along axis, smoothing along the other
Sobel(g, axis) ==
    Correlate1d(Correlate1d(g, <<-1, 0, 1>>, axis), <<1, 2, 1>>, 1 - axis)

\* np.nan_to_num(data, nan=0)
NanToNum(g) == Tab([c \in Cells |-> IF IsNaN(g[c]) THEN Fl(0) ELSE g[c]])

\* count, sum and sum of squares of the valid depths in the w x w window of
\* every cell: the three ndimage.convolve calls, times w*w
WinStats(data, w) ==
    LET valid == ValidCells(data)
    IN  Tab([c \in Cells |->
            LET W == Window(c, w) \cap valid
            IN  [ n  |-> Cardinality(W),
                  s1 |-> SumSet(W, Vals(data)),
                  s2 |-> SumSet(W, [d \in Cells |-> data[d].v * data[d].v]) ]])

\* n*S2 - S1^2 = n^2 * local_var (never negative)
WinR(st) == st.n * st.s2 - st.s1 * st.s1

\* local mean; with no valid cell in the window local_sum is 0 and
\* local_count is floored to 1e-10, so the mean is 0
LocalMean(st) == IF st.n = 0 THEN 0 ELSE Div(Scale * st.s1, st.n)

\* sqrt(max(local_var, 0))
LocalStd(st) ==
    IF st.n = 0 THEN 0 ELSE ISqrt(Scale * Scale * WinR(st)) \div st.n

compute_local_zscore(data, cfg) ==
    LET st == WinStats(data, cfg.window_size)
    IN  Tab([c \in Cells |->
            IF IsNaN(data[c]) THEN NaN
            ELSE LET d == st[c].n * data[c].v - st[c].s1
                     R == WinR(st[c])
                 IN  \* local_std floored to 1e-10: R = 0 means every valid
                     \* depth of the window equals data[c], so d is 0
                     IF R = 0 THEN Fl(d * Scale * Scale)
                     ELSE Fl(Sgn(d) * ISqrt((Scale * Scale * d * d) \div R))])

compute_slope(data) ==
    LET dx == Sobel(data, 1)
        dy == Sobel(data, 0)
    IN  Tab([c \in Cells |->
            IF IsNaN(data[c]) \/ IsNaN(dx[c]) \/ IsNaN(dy[c]) THEN NaN
            ELSE Fl(ISqrt(Scale * Scale * (dx[c].v * dx[c].v + dy[c].v * dy[c].v)))])

compute_curvature(data) ==
    LET d2x == Sobel(Sobel(data, 1), 1)
        d2y == Sobel(Sobel(data, 0), 0)
    IN  Tab([c \in Cells |->
            IF IsNaN(data[c]) \/ IsNaN(d2x[c]) \/ IsNaN(d2y[c]) THEN NaN
            ELSE Fl((Scale * (Abs(d2x[c].v) + Abs(d2y[c].v))) \div 2)])

compute_roughness(data, cfg) ==
    LET st == WinStats(data, cfg.roughness_window)
    IN  Tab([c \in Cells |->
            IF IsNaN(data[c]) THEN NaN ELSE Fl(LocalStd(st[c]))])

\* ndimage.laplace on the zero-filled grid: sum over both axes of [1,-2,1]
compute_laplacian(data) ==
    LET f == NanToNum(data)
        lx == Correlate1d(f, <<1, -2, 1>>, 1)
        ly == Correlate1d(f, <<1, -2, 1>>, 0)
    IN  Tab([c \in Cells |->
            IF IsNaN(data[c]) THEN NaN
            ELSE Fl(Scale * (lx[c].v + ly[c].v))])

compute_neighbor_mean(data, cfg) ==
    LET st == WinStats(data, cfg.window_size)
    IN  Tab([c \in Cells |->
            IF IsNaN(data[c]) THEN NaN ELSE Fl(LocalMean(st[c]))])

compute_neighbor_std(data, cfg) ==
    LET st == WinStats(data, cfg.window_size)
    IN  Tab([c \in Cells |->
            IF IsNaN(data[c]) THEN NaN ELSE Fl(LocalStd(st[c]))])

FeatureNames ==
    {"z_score", "slope", "curvature", "roughness", "laplacian",
     "neighbor_mean", "neighbor_std"}

extract_features(data, cfg) ==
    [ z_score       |-> compute_local_zscore(data, cfg),
      slope         |-> compute_slope(data),
      curvature     |-> compute_curvature(data),
      roughness     |-> compute_roughness(data, cfg),
      laplacian     |-> compute_laplacian(data),
      neighbor_mean |-> compute_neighbor_mean(data, cfg),
      neighbor_std  |-> compute_neighbor_std(data, cfg) ]


\* ------------------------------------------------------ anomaly detector
Detectors == {"isolation_forest", "zscore"}

ZeroGrid == Tab([c \in Cells |-> 0])

\* one row of the feature matrix X: the five features of a valid cell after
\* np.nan_to_num(X, nan=0, posinf=0, neginf=0)
FeatureRow(features, c) ==
    LET san(f) == IF IsNaN(f[c]) THEN 0 ELSE f[c].v
    IN  << san(features.z_score), san(features.slope), san(features.curvature),
           san(features.roughness), san(features.laplacian) >>

FeatureRows(data, features) ==
    {FeatureRow(features, c) : c \in ValidCells(data)}

\* sklearn's IsolationForest is a library.  What the program relies on is
\* modelled: for a given matrix and random_state the fitted model is a fixed
\* function of the row, so equal rows get equal scores; the program then
\* min-max normalises the scores of the batch.  A fitted forest is therefore
\* either "flat" (all raw scores equal: every normalised score is 0) or
\* "ranked": the rows equal to lo get 0, the rows equal to hi get
\* (max-min)/(max-min+1e-10), which is 1.0 at this resolution, and the other
\* rows get a value in between.
FlatForest == [kind |-> "flat", hi |-> <<>>, lo |-> <<>>]

\* the row held by the most cells (the first such row in raster order): a
\* forest isolates it last, so it gets the lowest raw score
ModalRow(data, features) ==
    LET valid == ValidCells(data)
        rows  == FeatureRows(data, features)
        cells == Tab([r \in rows |-> {c \in valid : FeatureRow(features, c) = r}])
        count == Tab([r \in rows |-> Cardinality(cells[r])])
        first == Tab([r \in rows |-> FlatIdx(FirstCell(cells[r]))])
    IN  CHOOSE r \in rows :
            \A q \in rows :
                \/ count[r] > count[q]
                \/ count[r] = count[q] /\ first[r] <= first[q]

\* which row the fitted forest scores highest is left open
Forests(data, features) ==
    LET modal == ModalRow(data, features)
    IN  {FlatForest} \cup
        {[kind |-> "ranked", hi |-> h, lo |-> modal] :
            h \in FeatureRows(data, features) \ {modal}}

\* the forest is fitted anew at every execution, whatever was fitted before
FittedForests_unseeded(fitted, data, features) == Forests(data, features)

\* IsolationForest(random_state=config.get("random_state", 42)).fit(X): with
\* the same matrix and random_state every fit gives the same forest
FittedForests(fitted, data, features) ==
    IF fitted.kind # "unfit" THEN {fitted} ELSE Forests(data, features)

\* the normalised score the fitted forest gives a row
ForestScore(forest, row) ==
    IF forest.kind = "flat" THEN 0
    ELSE IF row = forest.hi THEN Scale
    ELSE IF row = forest.lo THEN 0
    ELSE Scale \div 2

\* _run_isolation_forest, for a non-empty feature matrix (fit raises on an
\* empty one, see Detect): scores scattered back, invalid cells stay 0
run_isolation_forest(data, features, forest) ==
    Tab([c \in Cells |->
        IF IsNaN(data[c]) THEN 0
        ELSE ForestScore(forest, FeatureRow(features, c))])

\* np.minimum(x, 1.0) on a fixed-point score
ClampOne(x) == Min2(x, Scale)

run_zscore_detector(z_score, cfg) ==
    LET valid == {c \in Cells : ~IsNaN(z_score[c])}
        zv    == Vals(z_score)
    IN  IF cfg.use_mad
        THEN IF valid = {} THEN ZeroGrid
             ELSE LET \* twice the median of the valid z-scores
                      med2 == Median2(SortedVals(valid, zv))
                      \* twice |z - median|
                      dev2 == Tab([c \in Cells |-> Abs(2 * zv[c] - med2)])
                      \* four times the median absolute deviation
                      mad4 == Median2(SortedVals(valid, dev2))
                      thr  == cfg.mad_threshold
                  IN  Tab([c \in Cells |->
                          IF c \notin valid THEN 0
                          ELSE IF mad4 = 0
                               THEN ClampOne(Div(5 * dev2[c], thr))
                               ELSE ClampOne(Div(20 * Scale * dev2[c], mad4 * thr))])
        ELSE Tab([c \in Cells |->
                 IF c \notin valid THEN 0
                 ELSE ClampOne(Div(10 * Abs(zv[c]), cfg.threshold))])

\* the detectors of detector_results in insertion order
DetectorOrder(detector_results) ==
    (IF "isolation_forest" \in DOMAIN detector_results
        THEN <<"isolation_forest">> ELSE <<>>)
    \o (IF "zscore" \in DOMAIN detector_results THEN <<"zscore">> ELSE <<>>)

\* the weighted sum divided by the sum of every configured weight, the one
\* of the spatial_consistency detector and of a disabled detector included
combine_scores_all_weights(detector_results, cfg) ==
    LET total == SumSet(DOMAIN cfg.weights, cfg.weights)
        wsum(c) == SumSet(DOMAIN detector_results,
                          [d \in Detectors |->
                              IF d \in DOMAIN detector_results
                              THEN WeightOf(cfg.weights, d) * detector_results[d][c]
                              ELSE 0])
    IN  Tab([c \in Cells |-> IF total > 0 THEN Div(wsum(c), total)
                             ELSE Div(wsum(c), 10)])

TotalWeight(detector_results, cfg) ==
    SumSet(DOMAIN detector_results,
           [d \in Detectors |-> WeightOf(cfg.weights, d)])

combine_scores(detector_results, cfg) ==
    LET total == TotalWeight(detector_results, cfg)
        wsum(c) == SumSet(DOMAIN detector_results,
                          [d \in Detectors |->
                              IF d \in DOMAIN detector_results
                              THEN WeightOf(cfg.weights, d) * detector_results[d][c]
                              ELSE 0])
    IN  Tab([c \in Cells |->
            IF total > 0 THEN Div(wsum(c), total)
            ELSE Div(wsum(c), 10)])

\* the detectors that run, given the enable flags
detect_results(data, features, cfg, forest) ==
    LET names == (IF cfg.if_enabled THEN {"isolation_forest"} ELSE {})
                 \cup (IF cfg.z_enabled THEN {"zscore"} ELSE {})
    IN  Tab([d \in names |->
            IF d = "isolation_forest"
            THEN run_isolation_forest(data, features, forest)
            ELSE run_zscore_detector(features.z_score, cfg)])

\* the thresholded mask without the reset of the invalid source cells
detect_mask_unmasked(data, final_score, cfg) ==
    {c \in Cells : final_score[c] > cfg.anomaly_threshold}

\* final_score > threshold, with invalid source cells forced false
detect_mask(data, final_score, cfg) ==
    {c \in Cells : final_score[c] > cfg.anomaly_threshold /\ ~IsNaN(data[c])}


\* ----------------------------------------------------------- polygonizer
\* literals of AnomalyPolygonizer.polygonize
max_anomalies == 2000
max_scan_count == 2000

\* the 3x3 structuring element np.ones((3,3)) around a cell, grid or not
Box3(c) == {<<c[1] + dr, c[2] + dc>> : dr \in {-1, 0, 1}, dc \in {-1, 0, 1}}

\* ndimage.binary_erosion, border_value 0: a cell survives when the whole
\* 3x3 box around it is set, and cells outside the grid count as unset
binary_erosion(mask) == {c \in Cells : Box3(c) \subseteq mask}

\* ndimage.binary_dilation, border_value 0
binary_dilation(mask) == {c \in Cells : Box3(c) \cap mask # {}}

binary_opening(mask) == binary_dilation(binary_erosion(mask))

\* score_grid > threshold (the score grid holds no NaN), then the opening
\* when min_area > 1
polygon_mask(score_grid, cfg) ==
    LET mask == {c \in Cells : score_grid[c] > cfg.anomaly_threshold}
    IN  IF cfg.min_area_pixels > 1 THEN binary_opening(mask) ELSE mask

\* orthogonal neighbours: ndimage.label's default structure
Adjacent4(c, d) == Abs(c[1] - d[1]) + Abs(c[2] - d[2]) = 1

RECURSIVE Grow(_, _)
Grow(S, mask) ==
    LET T == S \cup {d \in mask : \E c \in S : Adjacent4(c, d)}
    IN  IF T = S THEN S ELSE Grow(T, mask)

Component(c, mask) == Grow({c}, mask)

RECURSIVE LabelFrom(_, _)
\* ndimage.label: components numbered in raster order of their first cell
LabelFrom(rest, mask) ==
    IF rest = {} THEN <<>>
    ELSE LET c    == FirstCell(rest)
             comp == Component(c, mask)
         IN  <<comp>> \o LabelFrom(rest \ comp, mask)

label(mask) == LabelFrom(mask, mask)

\* Optional[float]
None == [none |-> TRUE, v |-> 0]
Some(x) == [none |-> FALSE, v |-> x]

\* sum of a grid over a set of cells
SumOver(comp, g) == SumSet(comp, g)

\* float(np.nanmean(g[component])) of a grid without NaN
MeanOver(comp, g) == Div(SumOver(comp, g), Cardinality(comp))

\* the medium threshold tested before the high one
confidence_level_medium_first(mean_prob, cfg) ==
    IF mean_prob >= cfg.conf_medium THEN "medium"
    ELSE IF mean_prob >= cfg.conf_high THEN "high"
    ELSE "low"

confidence_level(mean_prob, cfg) ==
    IF mean_prob >= cfg.conf_high THEN "high"
    ELSE IF mean_prob >= cfg.conf_medium THEN "medium"
    ELSE "low"

\* n*sum(d^2) - sum(d)^2 over the cells of ld in a depth grid
DepthR(ld, data) ==
    Cardinality(ld) * SumSet(ld, [c \in Cells |-> data[c].v * data[c].v])
    - SumSet(ld, Vals(data)) * SumSet(ld, Vals(data))

\* _calculate_priority with the default weights 0.5 / 0.3 / 0.2, in units of
\* 1/(10*Scale) so that the weighted sum is exact
calculate_priority(mean_prob, area, ld, data) ==
    LET sumabs == SumSet(ld, [c \in Cells |-> Abs(data[c].v)])
        depth_var == IF sumabs = 0 THEN 0
                     ELSE ISqrt(Scale * Scale * DepthR(ld, data)) \div sumabs
        depth_priority == IF Cardinality(ld) > 1
                          THEN 3 * Min2(depth_var, Scale) ELSE 0
        area_normalized == Min2((Scale * area) \div 100, Scale)
    IN  5 * mean_prob + depth_priority + 2 * area_normalized

\* the ensemble score tested before the depth ratios
infer_anomaly_type_score_first(detector_scores, ld, data) ==
    IF ld = {} THEN "unknown"
    ELSE LET m2 == Median2(SortedVals(ValidCells(data), Vals(data)))
             n  == Cardinality(ld)
             s  == SumSet(ld, Vals(data))
             if_score == IF "isolation_forest" \in DOMAIN detector_scores
                         THEN detector_scores["isolation_forest"] ELSE 0
         IN  IF if_score > (8 * Scale) \div 10 THEN "noise_band"
             ELSE IF 4 * s > 3 * n * m2 THEN "spike"
             ELSE IF 10 * s < 3 * n * m2 THEN "hole"
             ELSE "unknown"

\* _infer_anomaly_type; m2 is twice np.nanmedian(full_data), and the
\* comparisons local_mean > 1.5*median and local_mean < 0.6*median are
\* cross-multiplied
infer_anomaly_type(detector_scores, ld, data) ==
    IF ld = {} THEN "unknown"
    ELSE LET m2 == Median2(SortedVals(ValidCells(data), Vals(data)))
             n  == Cardinality(ld)
             s  == SumSet(ld, Vals(data))
             if_score == IF "isolation_forest" \in DOMAIN detector_scores
                         THEN detector_scores["isolation_forest"] ELSE 0
         IN  IF 4 * s > 3 * n * m2 THEN "spike"
             ELSE IF 10 * s < 3 * n * m2 THEN "hole"
             ELSE IF if_score > (8 * Scale) \div 10 THEN "noise_band"
             ELSE "unknown"

Reasons ==
    [ isolation_forest |-> "Unusual feature combination detected by Isolation Forest",
      zscore           |-> "Depth significantly different from neighbors" ]

\* max(detector_scores.items(), key=score): the first maximal item
MaxDetector(detector_scores) ==
    LET order == DetectorOrder(detector_scores)
    IN  IF Len(order) = 2 /\ detector_scores[order[2]] > detector_scores[order[1]]
        THEN order[2] ELSE order[1]

get_primary_reason(detector_scores, detectors_triggered) ==
    IF detectors_triggered = <<>> THEN "Score exceeded threshold"
    ELSE Reasons[MaxDetector(detector_scores)]

\* the Anomaly built for one component (lines 548-662)
MakeAnomaly(comp, id, now, score_grid, metadata, detector_results, data, cfg) ==
    LET pixel_count == Cardinality(comp)
        area == pixel_count * metadata.pixel_area
        ld == comp \cap ValidCells(data)
        detector_scores == [d \in DOMAIN detector_results |->
                               MeanOver(comp, detector_results[d])]
        order == DetectorOrder(detector_results)
        detectors_triggered ==
            SelectSeq(order, LAMBDA d : detector_scores[d] > cfg.anomaly_threshold)
        mean_prob == MeanOver(comp, score_grid)
    IN  [ id                  |-> id,
          geometry            |-> comp,
          centroid_x          |-> Div(Scale * SumSet(comp, [c \in Cells |-> 2 * c[2] + 1]),
                                      2 * pixel_count),
          centroid_y          |-> Div(Scale * SumSet(comp, [c \in Cells |-> 2 * c[1] + 1]),
                                      2 * pixel_count),
          area_sq_meters      |-> area,
          anomaly_type        |-> infer_anomaly_type(detector_scores, ld, data),
          anomaly_probability |-> mean_prob,
          confidence_level    |-> confidence_level(mean_prob, cfg),
          qc_priority         |-> calculate_priority(mean_prob, area, ld, data),
          explanation         |->
              [ primary_reason |-> get_primary_reason(detector_scores, detectors_triggered),
                features       |-> detector_scores,
                thresholds     |-> cfg.anomaly_threshold,
                detector_flags |-> detectors_triggered,
                pixel_count    |-> pixel_count ],
          local_depth_mean    |-> IF ld = {} THEN None
                                  ELSE Some(Div(Scale * SumSet(ld, Vals(data)),
                                                Cardinality(ld))),
          local_depth_std     |-> IF ld = {} THEN None
                                  ELSE Some(ISqrt(Scale * Scale * DepthR(ld, data))
                                            \div Cardinality(ld)),
          neighbor_count      |-> pixel_count,
          review_decision     |-> "pending",
          created_at          |-> now ]

RECURSIVE InsertByPriority(_, _)
\* position of a among the anomalies already sorted: after every anomaly of
\* priority >= its own, which keeps equal priorities in list order
InsertByPriority(a, s) ==
    IF s = <<>> THEN <<a>>
    ELSE IF Head(s).qc_priority >= a.qc_priority
         THEN <<Head(s)>> \o InsertByPriority(a, Tail(s))
         ELSE <<a>> \o s

\* the list left in label order
SortByPriority_unsorted(s) == s

RECURSIVE SortByPriority(_)
\* anomalies.sort(key=lambda a: a.qc_priority, reverse=True): stable
SortByPriority(s) ==
    IF s = <<>> THEN <<>>
    ELSE InsertByPriority(s[Len(s)], SortByPriority(SubSeq(s, 1, Len(s) - 1)))

\* no component is ignored, whatever its pixel count
SkipNever(pixel_count, cfg) == FALSE

\* "if pixel_count < min_area: continue"
SkipSmall(pixel_count, cfg) == pixel_count < cfg.min_area_pixels

\* the loop without its scan limit
ScanVerdict_unlimited_scan(label_id, n_kept, pixel_count, cfg) ==
    IF n_kept >= max_anomalies THEN "break"
    ELSE IF SkipSmall(pixel_count, cfg) THEN "continue"
    ELSE "append"

\* what one iteration of the loop does with the component label_id when
\* n_kept anomalies have been collected (lines 528-546): stop at the scan
\* limit, stop at the anomaly limit, skip a small component, or go on to
\* build the anomaly
ScanVerdict(label_id, n_kept, pixel_count, cfg) ==
    IF label_id > max_scan_count THEN "break"
    ELSE IF n_kept >= max_anomalies THEN "break"
    ELSE IF SkipSmall(pixel_count, cfg) THEN "continue"
    ELSE "append"

RECURSIVE PolyLoop(_, _, _, _, _, _, _, _, _, _)
\* the loop over the labelled components (lines 527-664); ids[k] is the value
\* uuid4() returns for the k-th anomaly created
PolyLoop(label_id, comps, acc, ids, now, score_grid, metadata, detector_results, data, cfg) ==
    IF label_id > Len(comps) THEN acc
    ELSE LET verdict == ScanVerdict(label_id, Len(acc), Cardinality(comps[label_id]), cfg)
         IN  IF verdict = "break" THEN acc
             ELSE IF verdict = "continue"
             THEN PolyLoop(label_id + 1, comps, acc, ids, now, score_grid, metadata,
                           detector_results, data, cfg)
             ELSE PolyLoop(label_id + 1, comps,
                           Append(acc, MakeAnomaly(comps[label_id], ids[Len(acc) + 1], now,
                                                   score_grid, metadata, detector_results,
                                                   data, cfg)),
                           ids, now, score_grid, metadata, detector_results, data, cfg)

polygonize(ids, now, score_grid, metadata, detector_results, data, cfg) ==
    SortByPriority(PolyLoop(1, label(polygon_mask(score_grid, cfg)), <<>>, ids, now,
                            score_grid, metadata, detector_results, data, cfg))


\* statistics taken over every cell, a NaN cell counting as depth 0
compute_statistics_all_cells(data) ==
    LET n      == Cardinality(Cells)
        filled == [c \in Cells |-> IF IsNaN(data[c]) THEN 0 ELSE data[c].v]
        sorted == SortedVals(Cells, filled)
    IN  [ z_min    |-> Some(Scale * sorted[1]),
          z_max    |-> Some(Scale * sorted[n]),
          z_mean   |-> Some(Div(Scale * SumSeq(sorted), n)),
          z_std    |-> Some(ISqrt(Scale * Scale * DepthR(Cells, [c \in Cells |-> Fl(filled[c])])) \div n),
          z_median |-> Some(Div(Scale * Median2(sorted), 2)),
          valid_count  |-> n,
          nodata_count |-> Cardinality({c \in Cells : IsNaN(data[c])}),
          total_count  |-> n ]

\* ----------------------------------------------------------- statistics
\* RasterProcessor.compute_statistics
compute_statistics(data) ==
    LET valid == ValidCells(data)
        n     == Cardinality(valid)
        nodata_count == Cardinality({c \in Cells : IsNaN(data[c])})
        sorted == SortedVals(valid, Vals(data))
    IN  IF n = 0
        THEN [ z_min |-> None, z_max |-> None, z_mean |-> None, z_std |-> None,
               z_median |-> None, valid_count |-> 0,
               nodata_count |-> nodata_count,
               total_count |-> Cardinality(Cells) ]
        ELSE [ z_min    |-> Some(Scale * sorted[1]),
               z_max    |-> Some(Scale * sorted[n]),
               z_mean   |-> Some(Div(Scale * SumSeq(sorted), n)),
               z_std    |-> Some(ISqrt(Scale * Scale * DepthR(valid, data)) \div n),
               z_median |-> Some(Div(Scale * Median2(sorted), 2)),
               valid_count  |-> n,
               nodata_count |-> nodata_count,
               total_count  |-> Cardinality(Cells) ]

\* -------------------------------------------------------------- heatmap
\* HeatmapGenerator.generate: np.where(np.isnan(score_grid), nodata, score_grid);
\* the score grid holds no NaN, so every cell is written as its score
heatmap_nodata == -9999

heatmap_generate(score_grid) == [c \in Cells |-> score_grid[c]]

\* ------------------------------------------------------- pipeline inputs
\* depth of the undisturbed sea floor, and the depths a disturbed cell holds
Background == Fl(10)
SpecialKinds == {NaN, Fl(20)}

\* the grids: a uniform background with at most one cell replaced by
\* nodata or by another depth, the grid without any valid cell, the grid
\* with nodata in its first cell and another depth in its last, and a grid
\* of depths below the water line (negative) with a deeper last cell
Grids ==
    { [c \in Cells |-> NaN] } \cup
    { [c \in Cells |-> Background] } \cup
    { [c \in Cells |-> IF c = s THEN k ELSE Background] :
          s \in Cells, k \in SpecialKinds } \cup
    { [c \in Cells |-> IF c = <<0, 0>> THEN NaN
                       ELSE IF c = <<NRows - 1, NCols - 1>> THEN Fl(20)
                       ELSE Background],
      [c \in Cells |-> IF c = <<NRows - 1, NCols - 1>> THEN Fl(-20) ELSE Fl(-10)] }

\* the configurations: the defaults, and the defaults with one group of keys
\* overridden
Configs ==
    { DefaultConfig,
      [DefaultConfig EXCEPT !.min_area_pixels = 1],
      [DefaultConfig EXCEPT !.min_area_pixels = 25, !.anomaly_threshold = -1],
      [DefaultConfig EXCEPT !.anomaly_threshold = -1],
      [DefaultConfig EXCEPT !.min_area_pixels = 1, !.anomaly_threshold = 0],
      [DefaultConfig EXCEPT !.if_enabled = FALSE, !.min_area_pixels = 1],
      [DefaultConfig EXCEPT !.z_enabled = FALSE],
      [DefaultConfig EXCEPT !.use_mad = FALSE, !.min_area_pixels = 1],
      [DefaultConfig EXCEPT !.weights = [isolation_forest |-> 10, zscore |-> -5]],
      [DefaultConfig EXCEPT !.weights = [isolation_forest |-> 0, zscore |-> 0],
                            !.z_enabled = FALSE],
      [DefaultConfig EXCEPT !.weights = [isolation_forest |-> 5, zscore |-> -5]] }

\* pixel area |res_x * res_y| of the dataset, in square metres
PixelAreas == {25}

\* executions of the pipeline on the same dataset
MaxRuns == 2

\* ------------------------------------------------------ contour generator
\* A vertex is <<row, col>> in pixel units times den; Chaikin's quarter points
\* are then exact: every iteration multiplies den by 4.
ClosedEnds(pts) == Len(pts) >= 1 /\ pts[1] = pts[Len(pts)]

\* np.allclose(a, b): |a - b| <= 1e-8 + 1e-5 * |b| in every coordinate, with
\* a and b held as integers over den
AllClose(a, b, den) ==
    \A i \in {1, 2} :
        Abs(a[i] - b[i]) <= (den + 1000 * Abs(b[i])) \div 100000000

RECURSIVE QuarterPoints(_, _)
\* the points q = 0.75 p0 + 0.25 p1 and r = 0.25 p0 + 0.75 p1 of the edges
\* i, i+1, ..., over 4 * den
QuarterPoints(result, i) ==
    IF i >= Len(result) THEN <<>>
    ELSE LET p0 == result[i]
             p1 == result[i + 1]
         IN  << <<3 * p0[1] + p1[1], 3 * p0[2] + p1[2]>>,
                <<p0[1] + 3 * p1[1], p0[2] + 3 * p1[2]>> >>
             \o QuarterPoints(result, i + 1)

\* "Add last point if not a closed loop"
AppendLast(result, den) ==
    IF ~AllClose(result[1], result[Len(result)], den)
    THEN << <<4 * result[Len(result)][1], 4 * result[Len(result)][2]>> >>
    ELSE <<>>

RECURSIVE chaikin_smooth(_, _, _)
\* ContourGenerator._chaikin_smooth: [pts, den] after the given iterations
chaikin_smooth(result, den, iterations) ==
    IF iterations = 0 THEN [pts |-> result, den |-> den]
    ELSE chaikin_smooth(QuarterPoints(result, 1) \o AppendLast(result, den),
                        4 * den, iterations - 1)

\* shapely's LineString.is_simple -------------------------------------------
Cross(a, b, c) == (b[1] - a[1]) * (c[2] - a[2]) - (b[2] - a[2]) * (c[1] - a[1])
Dot(a, b, c) == (a[1] - b[1]) * (c[1] - b[1]) + (a[2] - b[2]) * (c[2] - b[2])

\* p lies on the segment a-b
OnSegment(a, b, p) ==
    /\ Cross(a, b, p) = 0
    /\ Min2(a[1], b[1]) <= p[1] /\ p[1] <= Max2(a[1], b[1])
    /\ Min2(a[2], b[2]) <= p[2] /\ p[2] <= Max2(a[2], b[2])

\* the segments a-b and c-d have a point in common
SegmentsMeet(a, b, c, d) ==
    \/ /\ Sgn(Cross(a, b, c)) * Sgn(Cross(a, b, d)) < 0
       /\ Sgn(Cross(c, d, a)) * Sgn(Cross(c, d, b)) < 0
    \/ OnSegment(a, b, c) \/ OnSegment(a, b, d)
    \/ OnSegment(c, d, a) \/ OnSegment(c, d, b)

\* consecutive segments a-b, b-c share more than b: c folds back over a-b
FoldsBack(a, b, c) == Cross(a, b, c) = 0 /\ Dot(a, b, c) > 0

IsSimple(pts) ==
    LET n == Len(pts)
        closed == ClosedEnds(pts)
    IN  /\ \A i \in 1 .. (n - 2) : ~FoldsBack(pts[i], pts[i + 1], pts[i + 2])
        /\ (closed /\ n >= 3) => ~FoldsBack(pts[n - 1], pts[1], pts[2])
        /\ \A i, j \in 1 .. (n - 1) :
              (j > i + 1 /\ ~(closed /\ i = 1 /\ j = n - 1))
                  => ~SegmentsMeet(pts[i], pts[i + 1], pts[j], pts[j + 1])

\* shapely's LineString.is_ring: closed and simple
is_ring(pts) == ClosedEnds(pts) /\ IsSimple(pts)

\* the body of the loop over raw contours in ContourGenerator.generate
\* (lines 110-137): the ContourLines one raw contour adds.  The affine
\* transform is one-to-one, so it is left out of the coordinates.
contour_lines(coords, min_length, iterations) ==
    IF Len(coords) < min_length THEN <<>>
    ELSE LET sm == chaikin_smooth(coords, 1, iterations)
         IN  IF Len(sm.pts) < 2 THEN <<>>
             ELSE << [ coords    |-> sm.pts,
                       den       |-> sm.den,
                       is_closed |-> is_ring(sm.pts) ] >>

\* ---------------------------------------------------------- contour inputs
\* raw contours: paths of MinPathLen..MaxPathLen vertices on the corners of
\* Lattice, consecutive vertices distinct; a path whose last vertex is its
\* first is a closed contour
LatticeMax == 1
MinPathLen == 3
MaxPathLen == 5
MaxIterations == 3
MinLengths == {3, 5}

Lattice == (0 .. LatticeMax) \X (0 .. LatticeMax)

RawContours ==
    UNION { { p \in [1 .. n -> Lattice] : \A i \in 1 .. (n - 1) : p[i] # p[i + 1] } :
            n \in MinPathLen .. MaxPathLen }

\* ------------------------------------------------------ sounding selector
\* the depth grid handed to select_from_grid
SRows == 2
SCols == 2
SPixels == (0 .. (SRows - 1)) \X (0 .. (SCols - 1))

\* max(1, int(cell_size / pixel_size))
cell_pixels(cell_size, pixel_size) == Max2(1, cell_size \div pixel_size)

\* range(0, n, step)
RangeStep(n, step) == {k \in 0 .. (n - 1) : k % step = 0}

\* depth_grid[row_start:row_end, col_start:col_end], as the set of its pixels
CellBlock(row_start, col_start, cpy, cpx) ==
    {q \in SPixels : /\ row_start <= q[1] /\ q[1] < Min2(row_start + cpy, SRows)
                     /\ col_start <= q[2] /\ q[2] < Min2(col_start + cpx, SCols)}

RECURSIVE RasterOrder(_)
\* the pixels of a block in row-major order (numpy's flattening)
RasterOrder(block) ==
    IF block = {} THEN <<>>
    ELSE LET q == CHOOSE x \in block :
                     \A y \in block : x[1] < y[1] \/ (x[1] = y[1] /\ x[2] <= y[2])
         IN  <<q>> \o RasterOrder(block \ {q})

\* valid_mask: cell != nodata_value (true of NaN) or ~np.isnan(cell)
ValidPixel(v, nodata_value) ==
    IF nodata_value.none THEN ~IsNaN(v)
    ELSE IsNaN(v) \/ v.v # nodata_value.v

\* the depths of a sequence of pixels
DepthsAt(grid, pixels) == [i \in 1 .. Len(pixels) |-> grid[pixels[i]]]

\* np.nanargmin / np.nanargmax raise ValueError on an all-NaN slice
AllNaN(keys) == \A i \in 1 .. Len(keys) : IsNaN(keys[i])

\* np.nanargmin(keys): the first index whose key is the least among the keys
\* that are not NaN
NanArgMin(keys) ==
    CHOOSE i \in 1 .. Len(keys) :
        /\ ~IsNaN(keys[i])
        /\ \A j \in 1 .. Len(keys) :
              ~IsNaN(keys[j]) =>
                  \/ keys[i].v < keys[j].v
                  \/ keys[i].v = keys[j].v /\ i <= j

\* the shoal sounding taken as the least depth, sign included
ShoalKey_signed(v) == v

\* shoal: np.nanargmin(np.abs(valid_depths))
ShoalKey(v) == Abs(v)

\* deep: np.nanargmax(np.abs(valid_depths)), the first greatest
DeepKey(v) == -Abs(v)

ShoalKeys(depths) ==
    [i \in 1 .. Len(depths) |->
        IF IsNaN(depths[i]) THEN NaN ELSE Fl(ShoalKey(depths[i].v))]

DeepKeys(depths) ==
    [i \in 1 .. Len(depths) |->
        IF IsNaN(depths[i]) THEN NaN ELSE Fl(DeepKey(depths[i].v))]

\* np.abs(cell - selected_depth), doubled
NearKeys(depths, selected2) ==
    [i \in 1 .. Len(depths) |->
        IF IsNaN(depths[i]) \/ IsNaN(selected2) THEN NaN
        ELSE Fl(Abs(2 * depths[i].v - selected2.v))]

\* twice np.nanmedian of a sequence of depths that are not all NaN
NanMedian2(depths) ==
    LET idx == {i \in 1 .. Len(depths) : ~IsNaN(depths[i])}
    IN  Median2(SortedVals(idx, [i \in 1 .. Len(depths) |-> depths[i].v]))

\* what one cell of the partition gives: a sounding, nothing, or an exception.
\* Depths and coordinates are doubled so that medians and pixel centres are
\* integers.
CellSounding(grid, row_start, col_start, cpy, cpx, opts) ==
    LET block  == RasterOrder(CellBlock(row_start, col_start, cpy, cpx))
        cell   == DepthsAt(grid, block)
        valid  == DepthsAt(grid, SelectSeq(block,
                      LAMBDA q : ValidPixel(grid[q], opts.nodata_value)))
        raised == [kind |-> "raise"]
    IN  IF valid = <<>> THEN [kind |-> "skip"]
        ELSE IF AllNaN(valid) /\ opts.mode # "representative" THEN raised
        ELSE LET selected2 ==
                     IF opts.mode = "shoal"
                     THEN Fl(2 * valid[NanArgMin(ShoalKeys(valid))].v)
                     ELSE IF opts.mode = "deep"
                     THEN Fl(2 * valid[NanArgMin(DeepKeys(valid))].v)
                     ELSE IF AllNaN(valid) THEN NaN
                     ELSE Fl(NanMedian2(valid))
                 near == NearKeys(cell, selected2)
             IN  IF AllNaN(near) THEN raised
                 ELSE LET q == block[NanArgMin(near)]
                      IN  [ kind    |-> "sounding",
                            x2      |-> opts.pixel_size * (2 * q[2] + 1),
                            y2      |-> -opts.pixel_size * (2 * q[1] + 1),
                            depth2  |-> selected2.v,
                            selection_type |-> opts.mode,
                            cell_id |-> <<row_start \div cpy, col_start \div cpx>>,
                            pixel   |-> q ]

RECURSIVE SoundingsFrom(_, _, _, _, _)
\* the two loops of select_from_grid from the cell at (row_start, col_start)
SoundingsFrom(grid, row_start, col_start, cpy_cpx, opts) ==
    IF row_start >= SRows THEN <<>>
    ELSE IF col_start >= SCols
         THEN SoundingsFrom(grid, row_start + cpy_cpx[1], 0, cpy_cpx, opts)
         ELSE <<CellSounding(grid, row_start, col_start, cpy_cpx[1], cpy_cpx[2], opts)>>
              \o SoundingsFrom(grid, row_start, col_start + cpy_cpx[2], cpy_cpx, opts)

\* SoundingSelector.select_from_grid: the soundings, or an exception
select_from_grid(grid, opts) ==
    LET cp  == cell_pixels(opts.cell_size, opts.pixel_size)
        all == SoundingsFrom(grid, 0, 0, <<cp, cp>>, opts)
    IN  IF \E i \in 1 .. Len(all) : all[i].kind = "raise"
        THEN [raised |-> TRUE, soundings |-> <<>>]
        ELSE [raised |-> FALSE,
              soundings |-> SelectSeq(all, LAMBDA r : r.kind = "sounding")]

\* depths of a pixel: no data, above the datum, and below it (the value a
\* numeric nodata sentinel also takes)
SoundingDepths == {NaN, Fl(1), Fl(-2)}

SoundingOptions ==
    [ cell_size    : {50, 200},
      pixel_size   : {100},
      mode         : {"shoal", "deep", "representative"},
      nodata_value : {None, Some(-2)} ]

\* --------------------------------------------------------------- state
VARIABLES
    sounding_grid,   \* depth grid given to the sounding selector
    sounding_opts,   \* cell size, pixel size, mode and nodata value
    sounding_result, \* what select_from_grid returned
    sounding_pc,     \* "idle", "ready" or "done"
    raw_contour,     \* a raw contour handed to the smoothing loop
    contour_opts,    \* min_length and smoothing_iterations of the generator
    contours,        \* the ContourLines generate has appended
    contour_pc,      \* "idle", "ready" or "done"
    level_input,     \* number of enumerated contour levels, and max_levels
    level_kept,      \* ranks (0 = lowest) of the levels generate processes
    level_pc,        \* "idle", "ready" or "done"
    file_exists,     \* the dataset file is still in storage
    data,            \* the depth grid of the dataset file
    metadata,        \* georeferencing of the dataset
    stats,           \* statistics stored when the dataset was uploaded
    config,          \* the ProcessingConfig of the pipeline
    pc,              \* stage of run_analysis
    run,             \* number of the current execution
    now,             \* clock (datetime.utcnow)
    uuids,           \* number of values uuid4() has returned so far
    features,        \* feature surfaces
    forest,          \* the forest fitted for this matrix and random_state
    detection,       \* DetectionResult
    heatmap,         \* raster written by HeatmapGenerator
    anomalies,       \* anomaly list of the current execution
    first_anomalies, \* anomaly list of the previous execution
    outputs,         \* output files written by the current execution
    error,           \* exception raised by run_analysis
    run_status,      \* RunStatus of the ModelRun row
    error_message,   \* error_message of the ModelRun row
    progress,        \* the run's entry in _run_progress
    response,        \* last RunStatusResponse a poller received
    config_snapshot, \* the configuration create_run stored with the run
    run_counts,      \* total_anomalies and the three confidence counts of the run
    run_row,         \* the run's row as other sessions see it: "uncommitted",
                     \* "committed" or "deleted"
    scan_input,      \* number and shape of the components polygonize labelled
    scan_label,      \* label_id of the loop over the components
    scan_acc,        \* labels of the components appended so far
    scan_result,     \* labels of the anomalies polygonize returned
    scan_simplify,   \* the last geom.simplify call: coordinate unit and tolerance
    scan_pc          \* "idle", "loop" or "returned"

pipeline_vars ==
    << config_snapshot, run_counts, run_row, file_exists, data, metadata, stats, config, pc, run, now, uuids, features,
       forest, detection, heatmap, anomalies, first_anomalies, outputs, error,
       run_status, error_message, progress, response >>

contour_vars ==
    << raw_contour, contour_opts, contours, contour_pc, level_input, level_kept, level_pc >>

sounding_vars == << sounding_grid, sounding_opts, sounding_result, sounding_pc >>

scan_vars == << scan_input, scan_label, scan_acc, scan_result, scan_simplify, scan_pc >>

vars == << pipeline_vars, contour_vars, sounding_vars, scan_vars >>

\* the variables the pipeline does not touch
other_vars == << contour_vars, sounding_vars, scan_vars >>

Unfit == [kind |-> "unfit", hi |-> <<>>, lo |-> <<>>]
NoDetection == [anomaly_mask |-> {}, score_grid |-> ZeroGrid, detector_results |-> <<>>]

\* progress_callback(percent, step): the entry of _run_progress for the run
Progress(percent, step) == [percent |-> percent, step |-> step]

\* the exceptions run_analysis lets through: type and message
NoError == [type |-> "", message |-> ""]

FileNotFoundError ==
    [ type    |-> "FileNotFoundError",
      message |-> "Dataset file not found at <file_path>. This likely happened because the server restarted (ephemeral storage). Please upload the dataset again." ]

ValueError ==
    [ type    |-> "ValueError",
      message |-> "Found array with 0 sample(s) (shape=(0, 7)) while a minimum of 1 is required by IsolationForest." ]

OSError ==
    [ type    |-> "OSError",
      message |-> "[Errno 28] No space left on device: '<geojson_path>'" ]

ContourIdle ==
    /\ raw_contour = <<>>
    /\ contour_opts = [min_length |-> 10, smoothing_iterations |-> 3]
    /\ contours = <<>>
    /\ contour_pc = "idle"
    /\ level_input = [n_levels |-> 0, max_levels |-> 50]
    /\ level_kept = <<>>
    /\ level_pc = "idle"

SoundingIdle ==
    /\ sounding_grid = [q \in SPixels |-> NaN]
    /\ sounding_opts = [cell_size |-> 100, pixel_size |-> 100, mode |-> "shoal",
                        nodata_value |-> None]
    /\ sounding_result = [raised |-> FALSE, soundings |-> <<>>]
    /\ sounding_pc = "idle"

ScanIdle ==
    /\ scan_input = [count |-> 0, pattern |-> "all_large", crs |-> "EPSG:4326",
                     transformer |-> FALSE]
    /\ scan_label = 1
    /\ scan_acc = <<>>
    /\ scan_result = <<>>
    /\ scan_simplify = [unit |-> "none", tolerance |-> 0]
    /\ scan_pc = "idle"

\* ModelRun's defaults: total_anomalies and the confidence counts are 0
NoCounts ==
    [ total_anomalies         |-> 0,
      high_confidence_count   |-> 0,
      medium_confidence_count |-> 0,
      low_confidence_count    |-> 0 ]

\* _merge_config(base, overrides) for overrides of settings: a key that is
\* overridden takes the override's value, every other key keeps the base's
merge_config(base, overrides) ==
    [k \in DOMAIN base \cup DOMAIN overrides |->
        IF k \in DOMAIN overrides THEN overrides[k] ELSE base[k]]

PipelineIdle ==
    /\ file_exists = FALSE
    /\ data = [c \in Cells |-> NaN]
    /\ metadata = [pixel_area |-> 1]
    /\ config = DefaultConfig
    /\ stats = compute_statistics(data)
    /\ pc = "idle"
    /\ run = 1
    /\ now = 0
    /\ uuids = 0
    /\ features = <<>>
    /\ forest = Unfit
    /\ detection = NoDetection
    /\ heatmap = <<>>
    /\ anomalies = <<>>
    /\ first_anomalies = <<>>
    /\ outputs = {}
    /\ error = NoError
    /\ run_status = "pending"
    /\ error_message = None
    /\ progress = Progress(0, "Queued")
    /\ response = None
    /\ run_row = "uncommitted"
    /\ config_snapshot = config
    /\ run_counts = NoCounts

Init ==
    /\ ContourIdle
    /\ SoundingIdle
    /\ ScanIdle
    /\ file_exists \in BOOLEAN
    /\ data \in (IF file_exists THEN Grids ELSE {[c \in Cells |-> Background]})
    /\ metadata \in [pixel_area : (IF file_exists THEN PixelAreas ELSE {1})]
    /\ config \in (IF file_exists THEN Configs ELSE {DefaultConfig})
    /\ stats = compute_statistics(data)
    /\ pc = "queued"
    /\ run = 1
    /\ now = 0
    /\ uuids = 0
    /\ features = <<>>
    /\ forest = Unfit
    /\ detection = NoDetection
    /\ heatmap = <<>>
    /\ anomalies = <<>>
    /\ first_anomalies = <<>>
    /\ outputs = {}
    /\ error = NoError
    /\ run_status = "pending"
    /\ error_message = None
    /\ progress = Progress(0, "Queued")
    /\ response = None
    /\ run_row = "uncommitted"
    \* config_overrides: none, or a threshold for the default configuration
    /\ \E overrides \in (IF config = DefaultConfig
                          THEN {<<>>, [anomaly_threshold |-> (3 * Scale) \div 10]}
                          ELSE {<<>>}) :
           config_snapshot = merge_config(config, overrides)
    /\ run_counts = NoCounts

\* nan_to_num applied to the caller's array itself (copy=False)
depth_after_filled(op, d) ==
    IF op = "extract_features" THEN NanToNum(d) ELSE d

\* The caller's depth array after an engine operation returned.  The feature
\* extractor fills NaN in a copy (np.nan_to_num, copy=True) and assigns NaN
\* only into arrays it has just computed; detect assigns into its own mask;
\* polygonize reads data[component_mask], a copy.  No statement writes into
\* the array passed in.
depth_after(op, d) == d

\* a pipeline whose heatmap step hands over to the export: step 6 is skipped
StageAfter_skip_polygonize(stage) ==
    CASE stage = "start"       -> "loaded"
      [] stage = "loaded"      -> "extracted"
      [] stage = "extracted"   -> "detected"
      [] stage = "detected"    -> "polygonized"
      [] stage = "heatmap"     -> "polygonized"
      [] stage = "polygonized" -> "done"

\* The straight-line body of run_analysis: the stage reached when the step
\* that starts at a stage returns.  Step 1 loads, 2 extracts, 3 detects,
\* 4-5 write the heatmap, 6 polygonizes, 7 exports the GeoJSON.
StageAfter(stage) ==
    CASE stage = "start"       -> "loaded"
      [] stage = "loaded"      -> "extracted"
      [] stage = "extracted"   -> "detected"
      [] stage = "detected"    -> "heatmap"
      [] stage = "heatmap"     -> "polygonized"
      [] stage = "polygonized" -> "done"

\* str(e) rendered as repr(e) would be: the type and the quoted message
StrOf_repr(e) == e.type \o "('" \o e.message \o "')"

\* str(e) of an exception built from one message argument
StrOf(e) == e.message

\* every anomaly counted, whatever its level
count_confidence_any(anoms, level) == Len(anoms)

\* sum(1 for a in anomalies if a.confidence_level == level)
count_confidence(anoms, level) ==
    Cardinality({k \in 1 .. Len(anoms) : anoms[k].confidence_level = level})

\* _run_analysis_task up to the first statement of the try block: the run is
\* read back, marked PROCESSING and saved
TaskBegin ==
    /\ pc = "queued"
    /\ run_row = "committed"
    /\ run_status' = "processing"
    /\ pc' = "start"
    /\ now' = now + 1
    /\ UNCHANGED other_vars
    /\ UNCHANGED << config_snapshot, run_counts, run_row, file_exists, data, metadata, stats, config, run, uuids, features, forest,
                    detection, heatmap, anomalies, first_anomalies, outputs, error,
                    error_message, progress, response >>

\* _run_analysis_task when its own session finds no run or no dataset: it
\* returns, and writes nothing
TaskAbandon ==
    /\ pc = "queued"
    /\ run_row # "committed"
    /\ pc' = "abandoned"
    /\ UNCHANGED other_vars
    /\ UNCHANGED << config_snapshot, run_counts, run_row, file_exists, data, metadata, stats, config, run, now, uuids,
                    features, forest, detection, heatmap, anomalies, first_anomalies,
                    outputs, error, run_status, error_message, progress, response >>

\* get_async_session after create_run returned: the request's transaction,
\* which holds the new run, is committed
CommitRequest ==
    /\ run_row = "uncommitted"
    /\ run_row' = "committed"
    /\ UNCHANGED other_vars
    /\ UNCHANGED << config_snapshot, run_counts, file_exists, data, metadata, stats, config, pc, run, now, uuids,
                    features, forest, detection, heatmap, anomalies, first_anomalies,
                    outputs, error, run_status, error_message, progress, response >>

\* DELETE /datasets/{id} before the task has read the run: the dataset's row
\* goes, and the rows of its runs with it (cascade)
DeleteDataset ==
    /\ pc = "queued"
    /\ run_row = "committed"
    /\ run_row' = "deleted"
    /\ UNCHANGED other_vars
    /\ UNCHANGED << config_snapshot, run_counts, file_exists, data, metadata, stats, config, pc, run, now, uuids,
                    features, forest, detection, heatmap, anomalies, first_anomalies,
                    outputs, error, run_status, error_message, progress, response >>

\* run_analysis step 1: RasterProcessor.load_raster
LoadRaster ==
    /\ pc = "start"
    /\ progress' = Progress(5, "Loading raster data")
    /\ IF file_exists
       THEN pc' = StageAfter(pc) /\ error' = error
       ELSE pc' = "failed" /\ error' = FileNotFoundError
    /\ now' = now + 1
    /\ UNCHANGED other_vars
    /\ UNCHANGED << config_snapshot, run_counts, run_row, file_exists, data, metadata, stats, config, run, uuids, features, forest,
                    detection, heatmap, anomalies, first_anomalies, outputs,
                    run_status, error_message, response >>

\* run_analysis step 2: FeatureExtractor.extract_features; the last of its
\* six progress entries stays
ExtractFeatures ==
    /\ pc = "loaded"
    /\ features' = extract_features(data, config)
    /\ data' = depth_after("extract_features", data)
    /\ progress' = Progress(55, "Computing neighborhood statistics")
    /\ pc' = StageAfter(pc)
    /\ now' = now + 1
    /\ UNCHANGED other_vars
    /\ UNCHANGED << config_snapshot, run_counts, run_row, file_exists, metadata, stats, config, run, uuids, forest, detection,
                    heatmap, anomalies, first_anomalies, outputs, error,
                    run_status, error_message, response >>

\* run_analysis step 3: AnomalyDetector.detect.  IsolationForest.fit raises
\* ValueError on a matrix with no rows (sklearn's check_array requires at
\* least one sample); nothing in detect catches it.
Detect ==
    /\ pc = "extracted"
    /\ IF config.if_enabled /\ ValidCells(data) = {}
       THEN /\ pc' = "failed"
            /\ error' = ValueError
            /\ progress' = Progress(60, "Running Isolation Forest")
            /\ UNCHANGED << forest, detection >>
       ELSE /\ \E f \in (IF ~config.if_enabled THEN {forest}
                         ELSE FittedForests(forest, data, features)) :
                 /\ forest' = f
                 /\ LET dr == detect_results(data, features, config, f)
                        final_score == combine_scores(dr, config)
                    IN  detection' = [ anomaly_mask |-> detect_mask(data, final_score, config),
                                       score_grid |-> final_score,
                                       detector_results |-> dr ]
            /\ pc' = StageAfter(pc)
            /\ progress' = Progress(80, "Combining detector scores")
            /\ error' = error
    /\ now' = now + 1
    /\ data' = depth_after("detect", data)
    /\ UNCHANGED other_vars
    /\ UNCHANGED << config_snapshot, run_counts, run_row, file_exists, metadata, stats, config, run, uuids, features,
                    heatmap, anomalies, first_anomalies, outputs,
                    run_status, error_message, response >>

\* run_analysis steps 4-5: HeatmapGenerator.generate
GenerateHeatmap ==
    /\ pc = "detected"
    /\ heatmap' = heatmap_generate(detection.score_grid)
    /\ outputs' = outputs \cup {"heatmap"}
    /\ progress' = Progress(85, "Generating heatmap")
    /\ pc' = StageAfter(pc)
    /\ now' = now + 1
    /\ UNCHANGED other_vars
    /\ UNCHANGED << config_snapshot, run_counts, run_row, file_exists, data, metadata, stats, config, run, uuids, features, forest,
                    detection, anomalies, first_anomalies, error,
                    run_status, error_message, response >>

\* run_analysis step 6: AnomalyPolygonizer.polygonize, then run_id is set on
\* every anomaly
Polygonize ==
    /\ pc = "heatmap"
    /\ LET \* uuid4() never returns a value twice; every Anomaly takes two
           \* (id and the provisional run_id)
           ids == [k \in 1 .. Cardinality(Cells) |-> uuids + 2 * k - 1]
           found == polygonize(ids, now, detection.score_grid, metadata,
                               detection.detector_results, data, config)
       IN  /\ anomalies' = [k \in 1 .. Len(found) |->
                                [run_id |-> run] @@ found[k]]
           /\ uuids' = uuids + 2 * Len(found)
    /\ progress' = Progress(90, "Creating anomaly polygons")
    /\ pc' = StageAfter(pc)
    /\ now' = now + 1
    /\ data' = depth_after("polygonize", data)
    /\ UNCHANGED other_vars
    /\ UNCHANGED << config_snapshot, run_counts, run_row, file_exists, metadata, stats, config, run, features, forest,
                    detection, heatmap, first_anomalies, outputs, error,
                    run_status, error_message, response >>

\* run_analysis step 7: the GeoJSON export, then the last progress entry.
\* open(geojson_path, "w") raises OSError when the output volume refuses the
\* file; nothing in run_analysis catches it.
ExportGeoJSON ==
    /\ pc = "polygonized"
    /\ \E writable \in BOOLEAN :
          IF writable
          THEN /\ outputs' = outputs \cup {"geojson"}
               /\ progress' = Progress(100, "Analysis complete")
               /\ pc' = StageAfter(pc)
               /\ error' = error
          ELSE /\ outputs' = outputs
               /\ progress' = Progress(95, "Exporting GeoJSON")
               /\ pc' = "failed"
               /\ error' = OSError
    /\ now' = now + 1
    /\ UNCHANGED other_vars
    /\ UNCHANGED << config_snapshot, run_counts, run_row, file_exists, data, metadata, stats, config, run, uuids, features, forest,
                    detection, heatmap, anomalies, first_anomalies,
                    run_status, error_message, response >>

\* _run_analysis_task after run_analysis returned: the anomalies are saved,
\* the run is marked COMPLETED and saved
CompleteRun ==
    /\ pc = "done"
    /\ run_status = "processing"
    /\ run_status' = "completed"
    /\ run_counts' = [ total_anomalies         |-> Len(anomalies),
                       high_confidence_count   |-> count_confidence(anomalies, "high"),
                       medium_confidence_count |-> count_confidence(anomalies, "medium"),
                       low_confidence_count    |-> count_confidence(anomalies, "low") ]
    /\ progress' = Progress(100, "Complete")
    /\ now' = now + 1
    /\ UNCHANGED other_vars
    /\ UNCHANGED << config_snapshot, run_row, file_exists, data, metadata, stats, config, pc, run, uuids, features,
                    forest, detection, heatmap, anomalies, first_anomalies, outputs, error,
                    error_message, response >>

\* _run_analysis_task, except Exception as e: the run is marked FAILED with
\* error_message = str(e) and saved; nothing is removed from the output
\* directory
RecordFailure ==
    /\ pc = "failed"
    /\ run_status = "processing"
    /\ run_status' = "failed"
    /\ error_message' = Some(StrOf(error))
    /\ progress' = Progress(0, "Error: " \o StrOf(error))
    /\ now' = now + 1
    /\ UNCHANGED other_vars
    /\ UNCHANGED << config_snapshot, run_counts, run_row, file_exists, data, metadata, stats, config, pc, run, uuids, features,
                    forest, detection, heatmap, anomalies, first_anomalies, outputs, error,
                    response >>

\* create_run for a second execution on the same dataset, configuration and
\* random_state: a new run, PENDING, with the progress entry "Queued"
Rerun ==
    /\ pc = "done"
    /\ run_status = "completed"
    /\ run < MaxRuns
    /\ first_anomalies' = anomalies
    /\ run' = run + 1
    /\ pc' = "queued"
    /\ run_status' = "pending"
    /\ run_row' = "uncommitted"
    /\ run_counts' = NoCounts
    /\ progress' = Progress(0, "Queued")
    /\ features' = <<>>
    /\ detection' = NoDetection
    /\ heatmap' = <<>>
    /\ anomalies' = <<>>
    /\ outputs' = {}
    /\ now' = now + 1
    /\ UNCHANGED other_vars
    /\ UNCHANGED << config_snapshot, file_exists, data, metadata, stats, config, uuids, forest, error,
                    error_message, response >>

Next ==
    \/ CommitRequest
    \/ DeleteDataset
    \/ TaskAbandon
    \/ TaskBegin
    \/ LoadRaster
    \/ ExtractFeatures
    \/ Detect
    \/ GenerateHeatmap
    \/ Polygonize
    \/ ExportGeoJSON
    \/ CompleteRun
    \/ RecordFailure
    \/ Rerun

Spec == Init /\ [][Next]_vars

\* ------------------------------------------------ the status endpoint
\* The background task is a coroutine on the request event loop
\* (asyncio.create_task).  run_analysis holds no await, so from the moment
\* the task resumes after saving PROCESSING until run_analysis returns or
\* raises, the loop runs nothing else; it is free while the task is not yet
\* started, while it waits for the repository, and after it ended.
EventLoopFree == pc \in {"queued", "abandoned", "start", "done", "failed"}

\* GET /runs/{id}/status
StatusRequest ==
    /\ EventLoopFree
    /\ run_row = "committed"
    /\ response' = Some([ status           |-> run_status,
                          progress_percent |-> progress.percent,
                          current_step     |-> progress.step,
                          error_message    |-> error_message ])
    /\ UNCHANGED other_vars
    /\ UNCHANGED << config_snapshot, run_counts, run_row, file_exists, data, metadata, stats, config, pc, run, now, uuids,
                    features, forest, detection, heatmap, anomalies, first_anomalies,
                    outputs, error, run_status, error_message, progress >>

ServiceInit == Init /\ config = DefaultConfig

ServiceNext == Next \/ StatusRequest

ServiceSpec == ServiceInit /\ [][ServiceNext]_vars

\* The event loop runs every coroutine that is ready: the background task
\* takes its next step, and the request's session is committed.  Requests
\* (a second run, a deletion) may or may not arrive.  Every step of the task
\* changes pc or run_status, and the commit changes run_row.
\* Weak fairness of the task's steps and of the commit.  For ExtractFeatures
\* and Detect, WF_pc is written out with ENABLED replaced by the action's
\* guard: each is enabled exactly at its own pc, and changes it.
LiveSpec ==
    /\ ServiceInit
    /\ [][Next]_vars
    /\ WF_<< pc, run_status >>(TaskAbandon \/ TaskBegin \/ LoadRaster \/ GenerateHeatmap
                                   \/ Polygonize \/ ExportGeoJSON \/ CompleteRun
                                   \/ RecordFailure)
    /\ WF_run_row(CommitRequest)
    /\ ([]<>(pc # "loaded") \/ []<><<ExtractFeatures>>_pc)
    /\ ([]<>(pc # "extracted") \/ []<><<Detect>>_pc)

\* ----------------------------------------------- contour generation alone
ContourInit ==
    /\ PipelineIdle
    /\ SoundingIdle
    /\ ScanIdle
    /\ raw_contour \in RawContours
    /\ contour_opts \in [min_length : MinLengths, smoothing_iterations : 0 .. MaxIterations]
    /\ contours = <<>>
    /\ contour_pc = "ready"
    /\ level_input = [n_levels |-> 0, max_levels |-> 50]
    /\ level_kept = <<>>
    /\ level_pc = "idle"

\* ContourGenerator.generate reaches a raw contour of find_contours
GenerateContour ==
    /\ contour_pc = "ready"
    /\ contours' = contours \o contour_lines(raw_contour, contour_opts.min_length,
                                             contour_opts.smoothing_iterations)
    /\ contour_pc' = "done"
    /\ UNCHANGED << raw_contour, contour_opts, level_input, level_kept, level_pc,
                    pipeline_vars, sounding_vars, scan_vars >>

ContourNext == GenerateContour

ContourSpec == ContourInit /\ [][ContourNext]_vars

\* ------------------------------------------- the contour levels of generate
\* np.arange enumerates the levels in increasing order; a level is named by
\* its rank, 0 for the lowest.
MaxLevelCount == 12
MaxLevelCap == 5

\* plain truncation: the first num levels
linspace_indices_truncated(n, num, low) == [k \in 1 .. num |-> k - 1]

\* np.linspace(0, n - 1, num, dtype=int): the floor of (k-1) * step with
\* step = (n-1)/(num-1), the last sample set to n - 1 itself.  step is a
\* float: where the exact product is an integer the float product may fall
\* just below it and the floor is one less (31 levels cut to 23 is the
\* first such case); low is the set of positions where that happens.
linspace_indices(n, num, low) ==
    [k \in 1 .. num |->
        IF num = 1 THEN 0
        ELSE IF k = num THEN n - 1
        ELSE LET exact == ((k - 1) * (n - 1)) \div (num - 1)
             IN  IF k \in low /\ k > 1 /\ ((k - 1) * (n - 1)) % (num - 1) = 0
                 THEN exact - 1 ELSE exact]

LevelInit ==
    /\ PipelineIdle
    /\ SoundingIdle
    /\ ScanIdle
    /\ raw_contour = <<>>
    /\ contour_opts = [min_length |-> 10, smoothing_iterations |-> 3]
    /\ contours = <<>>
    /\ contour_pc = "idle"
    /\ level_input \in [n_levels : 1 .. MaxLevelCount, max_levels : 1 .. MaxLevelCap]
    /\ level_kept = <<>>
    /\ level_pc = "ready"

\* generate, lines 90-97: the levels are enumerated and, when there are more
\* than max_levels, sampled
SelectLevels ==
    /\ level_pc = "ready"
    /\ \E low \in SUBSET (2 .. level_input.max_levels - 1) :
          level_kept' =
              IF level_input.n_levels > level_input.max_levels
              THEN linspace_indices(level_input.n_levels, level_input.max_levels, low)
              ELSE [k \in 1 .. level_input.n_levels |-> k - 1]
    /\ level_pc' = "done"
    /\ UNCHANGED << raw_contour, contour_opts, contours, contour_pc, level_input,
                    pipeline_vars, sounding_vars, scan_vars >>

LevelSpec == LevelInit /\ [][SelectLevels]_vars


\* ----------------------------------------------- sounding selection alone
SoundingInit ==
    /\ PipelineIdle
    /\ ContourIdle
    /\ ScanIdle
    \* every grid of SoundingDepths, and the grids whose first pixel holds the
    \* sentinel value -2, whose second holds a depth above it, and whose
    \* other pixels hold the sentinel or a depth below it
    /\ sounding_grid \in
          [SPixels -> SoundingDepths]
              \cup { g \in [SPixels -> {Fl(1), Fl(-2), Fl(-5)}] :
                         /\ g[<<0, 0>>] = Fl(-2)
                         /\ g[<<0, 1>>] = Fl(1)
                         /\ \A q \in SPixels \ {<<0, 0>>, <<0, 1>>} : g[q] # Fl(1) }
    /\ sounding_opts \in SoundingOptions
    /\ sounding_result = [raised |-> FALSE, soundings |-> <<>>]
    /\ sounding_pc = "ready"

SelectFromGrid ==
    /\ sounding_pc = "ready"
    /\ sounding_result' = select_from_grid(sounding_grid, sounding_opts)
    /\ sounding_pc' = "done"
    /\ UNCHANGED << sounding_grid, sounding_opts, pipeline_vars, contour_vars, scan_vars >>

SoundingNext == SelectFromGrid

SoundingSpec == SoundingInit /\ [][SoundingNext]_vars

\* ------------------------------------- the polygonizer's loop, step by step
\* The loop of polygonize over many components.  A labelled mask is given by
\* the number of its components and their shape: every component large
\* enough to be kept, every one too small, or only the first too small.
\* The qc_priority of a component alternates with its label.
MaxComponents == 2002

ScanComponent(pattern, label_id) ==
    [ pixel_count |-> IF pattern = "all_small" \/ (pattern = "first_small" /\ label_id = 1)
                      THEN DefaultConfig.min_area_pixels - 1
                      ELSE DefaultConfig.min_area_pixels,
      qc_priority |-> label_id % 2 ]

\* anomalies.sort(key=qc_priority, reverse=True) on the collected labels: the
\* sort is stable, so each priority keeps its components in label order
ScanSorted(acc) ==
    SelectSeq(acc, LAMBDA l : ScanComponent("all_large", l).qc_priority = 1)
    \o SelectSeq(acc, LAMBDA l : ScanComponent("all_large", l).qc_priority = 0)

\* outputs.polygons.simplify_tolerance, in units of 0.0001
simplify_tolerance == 1

\* The geom.simplify call made for a component (lines 569-587).  The polygon
\* is in degrees when the source CRS is geographic, or when a transformer
\* exists and has reprojected it to EPSG:4326; the tolerance is chosen from
\* the source CRS alone: the base value for 4326, ten times it otherwise
\* (the base value being below 0.1).
simplify_call(source_crs, transformer) ==
    [ unit      |-> IF source_crs = "EPSG:4326" \/ transformer THEN "degrees"
                    ELSE "meters",
      tolerance |-> IF source_crs = "EPSG:4326" THEN simplify_tolerance
                    ELSE 10 * simplify_tolerance ]

ScanInit ==
    /\ PipelineIdle
    /\ ContourIdle
    /\ SoundingIdle
    /\ scan_input \in
          { r \in [ count       : {1, max_scan_count, MaxComponents},
                    pattern     : {"all_large", "all_small", "first_small"},
                    crs         : {"EPSG:4326", "EPSG:32633"},
                    transformer : BOOLEAN ] :
                \* a transformer is built for a source CRS other than 4326
                \* only, and building it may fail (lines 516-521)
                r.crs = "EPSG:4326" => ~r.transformer }
    /\ scan_label = 1
    /\ scan_acc = <<>>
    /\ scan_result = <<>>
    /\ scan_simplify = [unit |-> "none", tolerance |-> 0]
    /\ scan_pc = "loop"

\* one iteration of the loop (lines 527-664); the iteration that ends the
\* loop goes on to the sort and the return (lines 667-670)
ScanStep ==
    /\ scan_pc = "loop"
    /\ LET verdict ==
               IF scan_label > scan_input.count THEN "break"
               ELSE ScanVerdict(scan_label, Len(scan_acc),
                                ScanComponent(scan_input.pattern, scan_label).pixel_count,
                                DefaultConfig)
       IN  IF verdict = "break"
           THEN /\ scan_result' = ScanSorted(scan_acc)
                /\ scan_pc' = "returned"
                /\ UNCHANGED << scan_label, scan_acc, scan_simplify >>
           ELSE /\ scan_label' = scan_label + 1
                /\ scan_acc' = IF verdict = "append" THEN Append(scan_acc, scan_label)
                               ELSE scan_acc
                /\ scan_simplify' = IF verdict = "append"
                                    THEN simplify_call(scan_input.crs, scan_input.transformer)
                                    ELSE scan_simplify
                /\ UNCHANGED << scan_result, scan_pc >>
    /\ UNCHANGED << scan_input, pipeline_vars, contour_vars, sounding_vars >>

ScanSpec == ScanInit /\ [][ScanStep]_vars

\* ================================================================ claims
FeaturesReady == pc \in {"extracted", "detected", "heatmap", "polygonized", "done"}
DetectionReady == pc \in {"detected", "heatmap", "polygonized", "done"}
PolygonizeReturned == pc \in {"polygonized", "done"}

\* the valid cells all hold the same depth
UniformGrid ==
    /\ ValidCells(data) # {}
    /\ \A c, d \in ValidCells(data) : data[c].v = data[d].v

\* C1: every feature surface is NaN at exactly the cells that are NaN in the
\* depth grid (the invalid mask is neither widened nor narrowed).
C1_InvalidMaskPreserved ==
    FeaturesReady =>
        \A f \in FeatureNames : \A c \in Cells :
            IsNaN(features[f][c]) <=> IsNaN(data[c])

\* C2: for every configuration of enable flags, weights and thresholds the
\* combined score is within [0,1] at every valid cell.
C2_CombinedScoreInUnitInterval ==
    DetectionReady =>
        \A c \in ValidCells(data) :
            /\ detection.score_grid[c] >= 0
            /\ detection.score_grid[c] <= Scale

\* C3: the anomaly list returned by polygonize is in non-increasing order of
\* qc_priority.
C3_SortedByPriority ==
    PolygonizeReturned =>
        \A i \in 1 .. (Len(anomalies) - 1) :
            anomalies[i].qc_priority >= anomalies[i + 1].qc_priority

\* the anomalies came out of the loop in another order than they are returned
C3_Witness ==
    /\ PolygonizeReturned
    /\ \E i, j \in 1 .. Len(anomalies) :
          /\ i < j
          /\ anomalies[i].qc_priority > anomalies[j].qc_priority
          /\ FlatIdx(FirstCell(anomalies[i].geometry))
               > FlatIdx(FirstCell(anomalies[j].geometry))

\* the connected regions of cells whose combined score is above the threshold
RawRegions ==
    LET mask == {c \in Cells : detection.score_grid[c] > config.anomaly_threshold}
    IN  {Component(c, mask) : c \in mask}

\* C4: a connected region of above-threshold cells with fewer pixels than the
\* configured minimum contributes no anomaly, and every anomaly returned has
\* pixel_count at least the minimum.
C4_SmallRegionsExcluded ==
    PolygonizeReturned =>
        /\ \A k \in 1 .. Len(anomalies) :
              anomalies[k].explanation.pixel_count >= config.min_area_pixels
        /\ \A reg \in RawRegions :
              Cardinality(reg) < config.min_area_pixels =>
                  \A k \in 1 .. Len(anomalies) : anomalies[k].geometry \cap reg = {}

\* a region that survived the morphological opening reached the loop with
\* fewer pixels than the minimum, and was left out
C4_Witness ==
    /\ PolygonizeReturned
    /\ LET comps == label(polygon_mask(detection.score_grid, config))
       IN  \E i \in 1 .. Len(comps) :
               /\ Cardinality(comps[i]) < config.min_area_pixels
               /\ \A k \in 1 .. Len(anomalies) : anomalies[k].geometry # comps[i]

\* C7: on a grid without a valid cell, with the default configuration,
\* statistics, feature extraction, detection and polygonization raise nothing
\* and give undefined statistics and an empty anomaly list.
C7_AllNodataRunsClean ==
    (file_exists /\ ValidCells(data) = {} /\ config = DefaultConfig) =>
        /\ pc # "failed"
        /\ stats.z_mean.none
        /\ anomalies = <<>>

\* C8: on a grid whose valid cells all hold the same depth, with the default
\* configuration, no cell's combined score exceeds the anomaly threshold and
\* polygonize returns the empty list.
C8_UniformGridNoAnomaly ==
    (UniformGrid /\ config = DefaultConfig /\ DetectionReady) =>
        /\ \A c \in Cells : detection.score_grid[c] <= config.anomaly_threshold
        /\ anomalies = <<>>

\* C9: the confidence level is HIGH when the mean probability is at least the
\* high threshold, else MEDIUM when it is at least the medium threshold, else
\* LOW; so a larger probability never gets a lower level.
ConfRank(level) == IF level = "high" THEN 2 ELSE IF level = "medium" THEN 1 ELSE 0

C9_ConfidenceTiers ==
    PolygonizeReturned =>
        /\ \A k \in 1 .. Len(anomalies) :
              LET p == anomalies[k].anomaly_probability
                  l == anomalies[k].confidence_level
              IN  /\ (l = "high") <=> (p >= config.conf_high)
                  /\ (l = "medium") <=> (p < config.conf_high /\ p >= config.conf_medium)
                  /\ (l = "low") <=> (p < config.conf_high /\ p < config.conf_medium)
        /\ \A j, k \in 1 .. Len(anomalies) :
              anomalies[j].anomaly_probability >= anomalies[k].anomaly_probability
                  => ConfRank(anomalies[j].confidence_level)
                       >= ConfRank(anomalies[k].confidence_level)

\* one list with an anomaly of high confidence and one of low confidence
C9_Witness ==
    /\ PolygonizeReturned
    /\ \A l \in {"high", "low"} :
          \E k \in 1 .. Len(anomalies) : anomalies[k].confidence_level = l

Reproducible(a) ==
    [ geometry            |-> a.geometry,
      centroid_x          |-> a.centroid_x,
      centroid_y          |-> a.centroid_y,
      area_sq_meters      |-> a.area_sq_meters,
      anomaly_type        |-> a.anomaly_type,
      anomaly_probability |-> a.anomaly_probability,
      confidence_level    |-> a.confidence_level,
      qc_priority         |-> a.qc_priority,
      explanation         |-> a.explanation,
      local_depth_mean    |-> a.local_depth_mean,
      local_depth_std     |-> a.local_depth_std,
      neighbor_count      |-> a.neighbor_count,
      review_decision     |-> a.review_decision ]

ContourKept == contour_pc = "done" /\ Len(contours) = 1

\* C5: a closed contour (first vertex equal to last) smoothed for N >= 1
\* iterations is returned with its first and last vertices equal, and when it
\* was a ring before smoothing it is flagged is_closed.
C5_ClosedContourStaysClosed ==
    (ContourKept /\ ClosedEnds(raw_contour) /\ contour_opts.smoothing_iterations >= 1) =>
        /\ ClosedEnds(contours[1].coords)
        /\ is_ring(raw_contour) => contours[1].is_closed


\* the partition cell with the given id, and its valid depths
CellOf(cell_id) ==
    LET cp == cell_pixels(sounding_opts.cell_size, sounding_opts.pixel_size)
    IN  CellBlock(cell_id[1] * cp, cell_id[2] * cp, cp, cp)

CellIds ==
    LET cp == cell_pixels(sounding_opts.cell_size, sounding_opts.pixel_size)
    IN  {<<r \div cp, c \div cp>> : r \in RangeStep(SRows, cp), c \in RangeStep(SCols, cp)}

\* the depths of a cell that are neither NaN nor the nodata value
ValidDepths(cell_id) ==
    {sounding_grid[q].v : q \in {x \in CellOf(cell_id) :
        /\ ~IsNaN(sounding_grid[x])
        /\ ValidPixel(sounding_grid[x], sounding_opts.nodata_value)}}

\* C6: in shoal mode every sounding emitted for a cell has a depth that is one
\* of the cell's valid depths, sign preserved, and of the least absolute value
\* among them; and when the selection returns, every cell with a valid depth
\* has such a sounding.
C6_ShoalIsLeastAbsoluteDepth ==
    (sounding_pc = "done" /\ sounding_opts.mode = "shoal") =>
        /\ \A k \in 1 .. Len(sounding_result.soundings) :
              LET sd == sounding_result.soundings[k]
              IN  \E v \in ValidDepths(sd.cell_id) :
                      /\ sd.depth2 = 2 * v
                      /\ \A u \in ValidDepths(sd.cell_id) : Abs(v) <= Abs(u)
        /\ ~sounding_result.raised =>
              \A id \in CellIds :
                  ValidDepths(id) # {} =>
                      \E k \in 1 .. Len(sounding_result.soundings) :
                          sounding_result.soundings[k].cell_id = id

\* a cell holds a depth of 1 and a depth of -2, and the sounding emitted for
\* it is the one of least absolute value: 1, not the least depth -2
C6_Witness ==
    /\ sounding_pc = "done"
    /\ sounding_opts.mode = "shoal"
    /\ \E k \in 1 .. Len(sounding_result.soundings) :
          LET sd == sounding_result.soundings[k]
          IN  /\ ValidDepths(sd.cell_id) = {1, -2}
              /\ sd.depth2 = 2

\* C11: in the result of detect, the anomaly mask is set at a cell exactly
\* when the combined score there is strictly above the configured threshold
\* and the source depth cell is valid; an invalid cell is never set.
C11_MaskIffAboveThresholdAndValid ==
    DetectionReady =>
        /\ \A c \in Cells :
              c \in detection.anomaly_mask <=>
                  /\ detection.score_grid[c] > config.anomaly_threshold
                  /\ ~IsNaN(data[c])
        /\ \A c \in Cells : IsNaN(data[c]) => c \notin detection.anomaly_mask

\* detect returned a mask that holds a valid cell and leaves out an invalid
\* cell whose score is above the threshold
C11_Witness ==
    /\ DetectionReady
    /\ detection.anomaly_mask # {}
    /\ \E c \in Cells :
          /\ IsNaN(data[c])
          /\ detection.score_grid[c] > config.anomaly_threshold
          /\ c \notin detection.anomaly_mask


\* the sum of the weights configured for the detectors
ConfiguredWeightSum ==
    SumSet(Detectors, [d \in Detectors |-> WeightOf(config.weights, d)])

\* C12: whenever the configured detector weights sum to zero, the combined
\* score surface is zero at every cell, whatever the detector surfaces are.
C12_ZeroWeightSumGivesZero ==
    (DetectionReady /\ ConfiguredWeightSum = 0) =>
        \A c \in Cells : detection.score_grid[c] = 0


C14_MissingFileFailsRun ==
    ~file_exists =>
        /\ pc \in {"queued", "abandoned", "start", "failed"}
        /\ pc = "failed" => error = FileNotFoundError
        /\ features = <<>>
        /\ detection = NoDetection
        /\ anomalies = <<>>
        /\ outputs = {}
        /\ run_status \in {"pending", "processing", "failed"}
        /\ run_status = "failed" =>
              error_message = Some(FileNotFoundError.message)

\* a run on a missing dataset file has been recorded as FAILED with the
\* loader's message
C14_Witness ==
    /\ ~file_exists
    /\ run_status = "failed"
    /\ error_message = Some(FileNotFoundError.message)
    /\ progress.step = "Error: " \o FileNotFoundError.message


\* C15: a run fails in full: when a stage of run_analysis has raised and the
\* caller has recorded the run as FAILED, no output file of the run exists,
\* neither the heatmap raster nor the anomalies GeoJSON.
C15_FailedRunLeavesNoArtifact ==
    run_status = "failed" => outputs = {}


\* run_analysis has been entered and has neither returned nor raised
PipelineComputing ==
    pc \in {"loaded", "extracted", "detected", "heatmap", "polygonized"}

\* C16: the pipeline runs off the request event loop: whenever a run's
\* pipeline computation is in progress, a status request for the run can be
\* served (and so a poller can see the milestone the computation has reached).
C16_StatusServedWhileComputing ==
    PipelineComputing => ENABLED StatusRequest


\* C17 as stated: the heatmap raster is written only after polygonization
\* has finished (order Loader, Extractor, Detector, Polygonizer, Heatmap
\* Writer).
C17_HeatmapAfterPolygonization ==
    "heatmap" \in outputs => pc \in {"polygonized", "done", "failed"}

\* the changes of stage a run may make: the task giving up before any stage,
\* the chain of run_analysis, a raise out of the loader, the detector or the
\* export, and the next run
StageEdges ==
    { <<"queued", "abandoned">>, <<"queued", "start">>, <<"start", "loaded">>, <<"loaded", "extracted">>,
      <<"extracted", "detected">>, <<"detected", "heatmap">>,
      <<"heatmap", "polygonized">>, <<"polygonized", "done">>,
      <<"start", "failed">>, <<"extracted", "failed">>, <<"polygonized", "failed">>,
      <<"done", "queued">> }

\* C17, amended: in every run the stages execute in the order Loader, Feature
\* Extractor, Anomaly Detector, Heatmap Writer, Polygonizer, GeoJSON export,
\* each at most once and none skipped: the heatmap raster is written right
\* after detection, and polygonization starts only when it is on disk.
C17_StagesInCodeOrder ==
    [][ /\ pc' # pc => <<pc, pc'>> \in StageEdges
        /\ pc' = "heatmap" => (pc = "detected" /\ "heatmap" \in outputs' \ outputs)
        /\ pc' = "polygonized" => (pc = "heatmap" /\ "heatmap" \in outputs) ]_vars

\* a run went through all the stages: both files are written and the
\* polygonizer found an anomaly
C17_Witness ==
    /\ pc = "done"
    /\ outputs = {"heatmap", "geojson"}
    /\ anomalies # <<>>
    /\ run_status = "completed"


\* the valid depths of the dataset, and how many valid cells hold a depth
\* at most / at least v
StatDepths == {data[c].v : c \in ValidCells(data)}
AtMost(v) == Cardinality({c \in ValidCells(data) : data[c].v <= v})
AtLeast(v) == Cardinality({c \in ValidCells(data) : data[c].v >= v})

\* C18: the statistics of a grid are taken over its valid cells only (least,
\* greatest, mean, standard deviation and median of the valid depths),
\* valid_count + nodata_count = total_count, and a grid with no valid cell
\* has every statistic None and valid_count 0.
C18_StatisticsOverValidCells ==
    LET n == Cardinality(ValidCells(data))
    IN  /\ stats.valid_count = n
        /\ stats.nodata_count = Cardinality(Cells \ ValidCells(data))
        /\ stats.total_count = Cardinality(Cells)
        /\ stats.valid_count + stats.nodata_count = stats.total_count
        /\ n = 0 =>
              /\ stats.z_min.none /\ stats.z_max.none /\ stats.z_mean.none
              /\ stats.z_std.none /\ stats.z_median.none
        /\ n > 0 =>
              /\ ~stats.z_min.none /\ ~stats.z_max.none /\ ~stats.z_mean.none
              /\ ~stats.z_std.none /\ ~stats.z_median.none
              /\ \E lo \in StatDepths :
                    /\ \A v \in StatDepths : lo <= v
                    /\ stats.z_min.v = Scale * lo
              /\ \E hi \in StatDepths :
                    /\ \A v \in StatDepths : hi >= v
                    /\ stats.z_max.v = Scale * hi
              /\ stats.z_mean.v =
                    Div(Scale * SumSet(ValidCells(data), Vals(data)), n)
              /\ stats.z_std.v =
                    ISqrt(Scale * Scale * DepthR(ValidCells(data), data)) \div n
              /\ \E a, b \in StatDepths :
                    /\ a <= b
                    /\ 2 * AtMost(a) >= n /\ 2 * AtLeast(b) >= n
                    /\ \A v \in StatDepths : ~(a < v /\ v < b)
                    /\ 2 * AtMost(a) > n => a = b
                    /\ stats.z_median.v = Div(Scale * (a + b), 2)

\* statistics of a grid that holds an invalid cell and two different depths
C18_Witness ==
    /\ stats.nodata_count = 1
    /\ stats.valid_count = Cardinality(Cells) - 1
    /\ ~stats.z_min.none
    /\ stats.z_min.v < stats.z_max.v


\* the labels polygonize is allowed to turn into anomalies: large enough and
\* within the scan limit
ScanEligible ==
    { l \in 1 .. Min2(scan_input.count, max_scan_count) :
          ScanComponent(scan_input.pattern, l).pixel_count >= DefaultConfig.min_area_pixels }

\* C19: polygonize takes the components in increasing label order, never
\* makes an anomaly of a component whose label is above the scan limit, never
\* collects more anomalies than the maximum, and when the loop ends, at a
\* limit or not, it returns what it collected, sorted by descending priority.
C19_ScanLimitsRespected ==
    /\ Len(scan_acc) <= max_anomalies
    /\ Len(scan_acc) > 0 =>
          /\ scan_acc[Len(scan_acc)] <= max_scan_count
          /\ scan_acc[Len(scan_acc)] < scan_label
          /\ Len(scan_acc) > 1 => scan_acc[Len(scan_acc) - 1] < scan_acc[Len(scan_acc)]
    /\ scan_pc = "returned" =>
          /\ Len(scan_result) = Len(scan_acc)
          /\ {scan_result[k] : k \in 1 .. Len(scan_result)} = ScanEligible
          /\ \A k \in 1 .. Len(scan_result) - 1 :
                ScanComponent(scan_input.pattern, scan_result[k]).qc_priority
                    >= ScanComponent(scan_input.pattern, scan_result[k + 1]).qc_priority

\* the loop met more components than the scan limit, the first of them too
\* small: it returned an anomaly for every other component up to the limit
\* and none for the component after it
C19_Witness ==
    /\ scan_pc = "returned"
    /\ scan_input.count > max_scan_count
    /\ scan_input.pattern = "first_small"
    /\ Len(scan_result) = max_scan_count - 1
    /\ scan_label = max_scan_count + 1


\* C20: in the heatmap raster a run has written, every cell that is invalid
\* in the depth grid holds the nodata sentinel, and every valid cell holds
\* its combined score.
C20_HeatmapSentinelAtInvalidCells ==
    "heatmap" \in outputs =>
        \A c \in Cells :
            IF IsNaN(data[c])
            THEN heatmap[c] = Scale * heatmap_nodata
            ELSE heatmap[c] = detection.score_grid[c]


\* the levels were more than max_levels and have been sampled
LevelsReduced ==
    level_pc = "done" /\ level_input.n_levels > level_input.max_levels

\* the kept levels are max_levels pairwise-distinct levels in increasing
\* order, the lowest and the highest enumerated level among them
EvenlySampled ==
    /\ Len(level_kept) = level_input.max_levels
    /\ \A k \in 1 .. Len(level_kept) - 1 : level_kept[k] < level_kept[k + 1]
    /\ level_kept[1] = 0
    /\ level_kept[Len(level_kept)] = level_input.n_levels - 1

\* C21 as stated: generate never processes more than max_levels levels, and
\* whenever the enumerated levels exceed max_levels the kept ones are exactly
\* max_levels distinct increasing levels with the lowest and the highest.
C21_LevelsCappedWithBothEnds ==
    /\ level_pc = "done" => Len(level_kept) <= level_input.max_levels
    /\ LevelsReduced => EvenlySampled

\* C21, amended: the same, the two ends being kept when max_levels >= 2; with
\* max_levels = 1 the single level kept is the lowest.
C21_LevelsCappedEndsFromTwo ==
    /\ level_pc = "done" => Len(level_kept) <= level_input.max_levels
    /\ (LevelsReduced /\ level_input.max_levels >= 2) => EvenlySampled
    /\ (LevelsReduced /\ level_input.max_levels = 1) => level_kept = <<0>>

\* twelve levels cut to five: ranks 0, 2, 5, 8 and 11 are kept
C21_Witness ==
    /\ LevelsReduced
    /\ level_input.n_levels = 12
    /\ level_kept = <<0, 2, 5, 8, 11>>


\* the mean depth of the valid cells of a region is above 1.5 times, or
\* below 0.6 times, the median of the valid depths of the grid
MeanAbove15(ld) ==
    4 * SumSet(ld, Vals(data))
        > 3 * Cardinality(ld) * Median2(SortedVals(ValidCells(data), Vals(data)))
MeanBelow06(ld) ==
    10 * SumSet(ld, Vals(data))
        < 3 * Cardinality(ld) * Median2(SortedVals(ValidCells(data), Vals(data)))

\* C22: the type of an anomaly with a mean depth m is spike if m > 1.5*g;
\* otherwise hole if m < 0.6*g; otherwise noise_band if the ensemble
\* detector's mean score over the region is above 0.8; otherwise unknown,
\* whatever the sign of the median g; so noise_band or unknown is returned
\* exactly when 0.6*g <= m <= 1.5*g.
C22_TypeDecidedInOrder ==
    PolygonizeReturned =>
        \A k \in 1 .. Len(anomalies) :
            LET a  == anomalies[k]
                ld == a.geometry \cap ValidCells(data)
                s  == IF "isolation_forest" \in DOMAIN a.explanation.features
                      THEN a.explanation.features["isolation_forest"] ELSE 0
            IN  ld # {} =>
                  /\ a.anomaly_type \in {"spike", "hole", "noise_band", "unknown"}
                  /\ a.anomaly_type =
                        IF MeanAbove15(ld) THEN "spike"
                        ELSE IF MeanBelow06(ld) THEN "hole"
                        ELSE IF 10 * s > 8 * Scale THEN "noise_band"
                        ELSE "unknown"
                  /\ a.anomaly_type \in {"noise_band", "unknown"}
                        <=> (~MeanBelow06(ld) /\ ~MeanAbove15(ld))


\* on the grid of negative depths a region whose mean depth is both above
\* 1.5*g and below 0.6*g was typed: the first test decides, it is a spike
C22_Witness ==
    /\ PolygonizeReturned
    /\ \E k \in 1 .. Len(anomalies) :
          LET ld == anomalies[k].geometry \cap ValidCells(data)
          IN  /\ ld # {}
              /\ MeanAbove15(ld) /\ MeanBelow06(ld)
              /\ anomalies[k].anomaly_type = "spike"


\* the cells where every detector that ran scores 1
AllOnes ==
    {c \in Cells : \A d \in DOMAIN detection.detector_results :
                       detection.detector_results[d][c] = Scale}


\* C23 as stated: a cell where every enabled detector scores 1 has combined
\* score 1, the weights of the detectors that did not run playing no part.
C23_AllOnesScoreOne ==
    (DetectionReady /\ DOMAIN detection.detector_results # {}) =>
        \A c \in AllOnes : detection.score_grid[c] = Scale

\* C23, amended: when the weights of the enabled detectors sum to a positive
\* number, the combined score is the weighted sum of the enabled detectors'
\* scores divided by that number, so a cell where every enabled detector
\* scores 1 has combined score 1.
C23_EnabledWeightedAverage ==
    LET dr == detection.detector_results
        W  == TotalWeight(dr, config)
    IN  (DetectionReady /\ DOMAIN dr # {} /\ W > 0) =>
            /\ \A c \in Cells :
                  detection.score_grid[c] =
                      Div(SumSet(DOMAIN dr,
                                 [d \in Detectors |->
                                     IF d \in DOMAIN dr
                                     THEN WeightOf(config.weights, d) * dr[d][c]
                                     ELSE 0]), W)
            /\ \A c \in AllOnes : detection.score_grid[c] = Scale

\* only the ensemble detector ran, with its default weight 0.5 of a weight
\* set that sums to 1.0, and the cell it scores 1 has combined score 1
C23_Witness ==
    /\ DetectionReady
    /\ DOMAIN detection.detector_results = {"isolation_forest"}
    /\ config.weights = DefaultWeights
    /\ \E c \in AllOnes : detection.score_grid[c] = Scale


\* C24: the simplification tolerance matches the unit of the coordinates
\* simplified: a polygon in degrees (geographic source, or projected source
\* reprojected to the geographic reference) is simplified with the base
\* tolerance, and the tenfold tolerance is used on polygons in meters only.
C24_ToleranceMatchesUnit ==
    /\ scan_simplify.unit = "degrees" => scan_simplify.tolerance = simplify_tolerance
    /\ scan_simplify.tolerance = 10 * simplify_tolerance => scan_simplify.unit = "meters"


\* C25: select_from_grid partitions the grid into disjoint cells covering
\* every pixel, and returns exactly one sounding per cell of the partition,
\* with pairwise-distinct cell ids: as many soundings as cells.
C25_OneSoundingPerCell ==
    sounding_pc = "done" =>
        /\ \A q \in SPixels : \E id \in CellIds : q \in CellOf(id)
        /\ \A id1, id2 \in CellIds : id1 # id2 => CellOf(id1) \cap CellOf(id2) = {}
        /\ ~sounding_result.raised
        /\ Len(sounding_result.soundings) = Cardinality(CellIds)
        /\ \A id \in CellIds :
              Cardinality({k \in 1 .. Len(sounding_result.soundings) :
                               sounding_result.soundings[k].cell_id = id}) = 1

\* C26: in every mode, and whether nodata is NaN or a numeric sentinel, the
\* pixel whose centre is reported as a sounding's location lies inside that
\* sounding's cell and is a valid pixel of the grid.
C26_SoundingPixelValidInCell ==
    sounding_pc = "done" =>
        \A k \in 1 .. Len(sounding_result.soundings) :
            LET sd == sounding_result.soundings[k]
            IN  /\ sd.pixel \in CellOf(sd.cell_id)
                /\ sd.x2 = sounding_opts.pixel_size * (2 * sd.pixel[2] + 1)
                /\ sd.y2 = -sounding_opts.pixel_size * (2 * sd.pixel[1] + 1)
                /\ ~IsNaN(sounding_grid[sd.pixel])
                /\ ValidPixel(sounding_grid[sd.pixel], sounding_opts.nodata_value)


\* C27: every run that create_run made, and whose row still exists,
\* eventually reaches a terminal status (completed or failed), whatever the
\* order of the request's commit, the background task's reads and a dataset
\* deletion: no run stays pending or processing forever.
C27_EveryRunTerminates ==
    (run_status \in {"pending", "processing"} /\ run_row # "deleted")
        ~> (run_status \in {"completed", "failed"} \/ run_row = "deleted")


\* C28: the configuration the pipeline runs with is the configuration
\* recorded for the run: once the task has built its pipeline, the settings
\* read by the feature extractor, the detectors and the polygonizer are those
\* of config_snapshot, config_overrides included.
C28_RunsWithRecordedConfig ==
    pc \notin {"queued", "abandoned"} => config = config_snapshot


\* C29: every pixel counted in the pixel_count of an anomaly returned by
\* polygonize is a cell whose combined score is strictly above the anomaly
\* threshold and whose source depth is valid, whatever the threshold: the
\* opening adds no cell to the mask and no nodata cell is part of a region.
C29_RegionPixelsAboveThresholdAndValid ==
    PolygonizeReturned =>
        \A k \in 1 .. Len(anomalies) :
            /\ anomalies[k].explanation.pixel_count = Cardinality(anomalies[k].geometry)
            /\ \A c \in anomalies[k].geometry :
                  /\ detection.score_grid[c] > config.anomaly_threshold
                  /\ ~IsNaN(data[c])


\* the statuses, in the order a run goes through them
StatusEdges ==
    { <<"pending", "processing">>, <<"processing", "completed">>,
      <<"processing", "failed">> }

====
